---------------------------- MODULE Spec2Model ----------------------------
(***************************************************************************)
(* A model of NdsSDFormat: the FAT32 geometry derivation, the byte images  *)
(* of the on-disk structures and the five write operations, in the two     *)
(* implementations the repository holds (the C functions of SDFormat.cpp   *)
(* and the methods of SectorWriter), together with the command-line tool   *)
(* that sequences them.                                                    *)
(*                                                                         *)
(* A device is a sparse map from sector number to a 512-byte image: the    *)
(* sectors some write has touched (an all-zero image is stored as the      *)
(* empty sequence).  Every other sector holds its prior content,           *)
(* PriorSector.  Multi-byte fields are laid out little-endian, as the      *)
(* packed structures are on the hosts the code is built for.               *)
(***************************************************************************)
EXTENDS Integers, Sequences, FiniteSets, TLC

\* ------------------------------------------------------------------ bounds

\* A library caller's operation may meet an interrupted, short or failing
\* system call only when at most MaxOpsBeforeFault operations were invoked
\* before it (the tool's may anywhere).
MaxOpsBeforeFault == 0

\* The writeBytes calls of an operation that a fault may be injected into
\* are its first MaxFaultAt calls.
MaxFaultAt == 6

\* ------------------------------------------------------------------- state

VARIABLES
    mode,        \* who drives the session: "capi", "sw" or "tool"
    handle,      \* the descriptor the caller holds (negative: invalid)
    totalSectors,\* the total sector count the caller passes (uint64_t)
    labelText,   \* the label text the caller passes
    priorSeed,   \* selects what the device held before the session
    disk,        \* the sectors written so far: sector number -> 512 bytes
    done,        \* the operations invoked so far in this session
    lastOp,      \* the operation that returned last ("none" before any)
    lastRes,     \* what it returned
    calls,       \* the writeBytes calls it issued, in order
    volumeId,    \* the time() value the last boot-sector write read
    sw,          \* the SectorWriter object, once make has built it
    pc,          \* where the command-line tool's main is
    exitStatus,  \* the tool's exit status (-1 while it runs)
    closed,      \* whether the tool has closed its descriptor
    prepared,    \* the labels prepareVolumeLabel returned, taken alone
    prim         \* the call of an I/O primitive in progress, taken alone

vars == <<mode, handle, totalSectors, labelText, priorSeed, disk, done,
          lastOp, lastRes, calls, volumeId, sw, pc, exitStatus, closed,
          prepared, prim>>

\* ------------------------------------------------------- program constants

kSectorSize == 512
kSectorsPerCluster == 64
kPartitionAlignmentSectors == 8192
kReservedSectors == 32
kFatCount == 2
kFatStartSector == kPartitionAlignmentSectors + kReservedSectors
kMbrSignature == 43605
kPartitionTypeFat32Lba == 12
kMbrBootstrapSize == 446
kVbrSignature == 43605
kAttrVolumeId == 8
kRootCluster == 2
kMediaDescriptor == 248
kFsInfoSector == 1
kBackupBootSector == 6

\* SectorWriter's own copies of the constants.
SW_kNumberFats == 2
SW_kMinSectorsForMBR == 18432
SW_kFat32Signature == 43605

\* SDFormatResult
Success == "Success"
InvalidDevice == "InvalidDevice"
IOError == "IOError"
TooSmall == "TooSmall"

\* ------------------------------------------------------------ fixed widths
\* TLC's integers are 32-bit, so a uint32_t or uint64_t value is held as its
\* 16-bit limbs, least significant first: two limbs for uint32_t, four for
\* uint64_t.  Arithmetic on limbs wraps at the width of its operands, as the
\* unsigned arithmetic of the code does.

U8 == 2^8
Limb == 2^16

Min(a, b) == IF a < b THEN a ELSE b
Max(a, b) == IF a > b THEN a ELSE b

\* A number below 2^31 as a uint32_t and as a uint64_t.
W32(n) == <<n % Limb, n \div Limb>>
W64(n) == <<n % Limb, n \div Limb, 0, 0>>

\* The 32-bit constant whose high and low halves are hi and lo.
Hex32(hi, lo) == <<lo, hi>>

\* static_cast<uint32_t> of a uint64_t, and the promotion back.
Narrow32(w) == SubSeq(w, 1, 2)
Widen64(w) == w \o <<0, 0>>

\* The number a limb value stands for, when it is below 2^31.
Fits(w) == w[2] < 2^15 /\ \A i \in 3..Len(w) : w[i] = 0
ToInt(w) == w[1] + Limb * w[2]

RECURSIVE AddC(_, _, _)
AddC(a, b, c) ==
    IF a = <<>> THEN <<>>
    ELSE LET s == a[1] + b[1] + c
         IN  <<s % Limb>> \o AddC(Tail(a), Tail(b), s \div Limb)

RECURSIVE SubB(_, _, _)
SubB(a, b, c) ==
    IF a = <<>> THEN <<>>
    ELSE LET d == a[1] - b[1] - c
         IN  <<(d + Limb) % Limb>> \o SubB(Tail(a), Tail(b), IF d < 0 THEN 1 ELSE 0)

RECURSIVE MulC(_, _, _)
MulC(a, k, c) ==
    IF a = <<>> THEN <<>>
    ELSE LET p == a[1] * k + c
         IN  <<p % Limb>> \o MulC(Tail(a), k, p \div Limb)

RECURSIVE DivFrom(_, _, _, _)
DivFrom(a, d, i, r) ==
    IF i = 0 THEN <<>>
    ELSE LET cur == r * Limb + a[i]
         IN  DivFrom(a, d, i - 1, cur % d) \o <<cur \div d>>

\* a + b, a - b, a * k, a / d at the width of a (k and d below 2^15 + 1).
AddW(a, b) == AddC(a, b, 0)
SubW(a, b) == SubB(a, b, 0)
MulW(a, k) == MulC(a, k, 0)
DivW(a, d) == DivFrom(a, d, Len(a), 0)

RECURSIVE LessFrom(_, _, _)
LessFrom(a, b, i) ==
    IF i = 0 THEN FALSE
    ELSE IF a[i] # b[i] THEN a[i] < b[i] ELSE LessFrom(a, b, i - 1)

\* a < b for two values of one width.
LessW(a, b) == LessFrom(a, b, Len(a))

\* ----------------------------------------------------------- byte encoding

Zeros(n) == [i \in 1..n |-> 0]
LE16(x) == <<x % U8, (x \div U8) % U8>>
LE32(w) == LE16(w[1]) \o LE16(w[2])

\* What a little-endian reader gets from the bytes at offset off (0-based).
ReadLE16(img, off) == img[off + 1] + U8 * img[off + 2]
ReadLE32(img, off) == <<ReadLE16(img, off), ReadLE16(img, off + 2)>>

\* std::toupper on an unsigned char in the C locale.
ToUpper(c) == IF c >= 97 /\ c <= 122 THEN c - 32 ELSE c

\* --------------------------------------------------------------- geometry

\* A variant that keeps ten characters of the text.
prepareVolumeLabel_TenKept(text) ==
    LET len == Min(Len(text), 10)
    IN  [i \in 1..11 |-> IF i <= len THEN ToUpper(text[i]) ELSE 32]

\* A variant that turns upper case into lower case as well.
prepareVolumeLabel_CaseSwapped(text) ==
    LET len == Min(Len(text), 11)
        swap(c) == IF c >= 65 /\ c <= 90 THEN c + 32 ELSE ToUpper(c)
    IN  [i \in 1..11 |-> IF i <= len THEN swap(text[i]) ELSE 32]

\* SDFormat.cpp: std::array<char, 11> prepareVolumeLabel(const char* label)
prepareVolumeLabel(text) ==
    LET len == Min(Len(text), 11)
    IN  [i \in 1..11 |-> IF i <= len THEN ToUpper(text[i]) ELSE 32]

\* SectorWriter.cpp: prepareVolumeLabel(std::string_view label)
SW_prepareVolumeLabel(text) ==
    LET len == Min(Len(text), 11)
    IN  [i \in 1..11 |-> IF i <= len THEN ToUpper(text[i]) ELSE 32]

\* uint64_t partitionSectorCount(uint64_t sectorCount)
partitionSectorCount(sectorCount) ==
    SubW(sectorCount, W64(kPartitionAlignmentSectors))

\* uint32_t fatSizeSectors(uint64_t sectorCount)
fatSizeSectors(sectorCount) ==
    LET sectorsToAllocate ==
            SubW(partitionSectorCount(sectorCount), W64(kReservedSectors))
        sectorsPerFatEntry == (256 * kSectorsPerCluster + kFatCount) \div 2
    IN  Narrow32(DivW(AddW(sectorsToAllocate, W64(sectorsPerFatEntry - 1)),
                      sectorsPerFatEntry))

\* A variant that leaves room for one FAT only.
dataStartSector_OneFat(sectorCount) ==
    AddW(W32(kFatStartSector), fatSizeSectors(sectorCount))

\* uint32_t dataStartSector(uint64_t sectorCount)
dataStartSector(sectorCount) ==
    AddW(W32(kFatStartSector), MulW(fatSizeSectors(sectorCount), kFatCount))

\* A variant that counts the root directory's cluster as free.
freeClusterCount_RootFree(sectorCount) ==
    LET totalDataSectors ==
            SubW(SubW(Narrow32(partitionSectorCount(sectorCount)),
                      W32(kReservedSectors)),
                 MulW(fatSizeSectors(sectorCount), kFatCount))
    IN  DivW(totalDataSectors, kSectorsPerCluster)

\* uint32_t freeClusterCount(uint64_t sectorCount)
freeClusterCount(sectorCount) ==
    LET totalDataSectors ==
            SubW(SubW(Narrow32(partitionSectorCount(sectorCount)),
                      W32(kReservedSectors)),
                 MulW(fatSizeSectors(sectorCount), kFatCount))
        totalClusters == DivW(totalDataSectors, kSectorsPerCluster)
    IN  SubW(totalClusters, W32(1))

\* SectorWriter::make past its assert: the object it constructs (size_t is
\* 64 bits wide).
SW_make(fdArg, sectorCount, text) ==
    LET volumeLabel == SW_prepareVolumeLabel(text)
        mbrPartitionSectorCount == SubW(sectorCount, W64(kPartitionAlignmentSectors))
        tmpSize == SubW(mbrPartitionSectorCount, W64(kReservedSectors))
        fatSize == Narrow32(DivW(AddW(MulW(tmpSize, 4),
                                      W64(kSectorSize * kSectorsPerCluster - 1)),
                                 kSectorSize * kSectorsPerCluster))
        fatStart == W32(kPartitionAlignmentSectors + kReservedSectors)
        dataStart == AddW(fatStart, MulW(fatSize, SW_kNumberFats))
        totalDataSectors ==
            SubW(SubW(Narrow32(mbrPartitionSectorCount), W32(kReservedSectors)),
                 MulW(fatSize, SW_kNumberFats))
        freeClusters == SubW(DivW(totalDataSectors, kSectorsPerCluster), W32(1))
    IN  [fd_ |-> fdArg,
         sectorCount_ |-> sectorCount,
         volumeLabel_ |-> volumeLabel,
         mbrPartitionSectorCount_ |-> mbrPartitionSectorCount,
         fatSizeSectors_ |-> fatSize,
         fatStartSector_ |-> fatStart,
         dataStartSector_ |-> dataStart,
         freeClusterCount_ |-> freeClusters]

\* --------------------------------------------------------- sector images

\* struct PartitionEntry with the values sdFormatWriteMBR gives it.
PartitionEntry(sectorCount32) ==
    <<128, 255, 255, 255, kPartitionTypeFat32Lba, 255, 255, 255>>
      \o LE32(W32(kPartitionAlignmentSectors)) \o LE32(sectorCount32)

\* struct MasterBootRecord: bootstrap, four partition slots, signature.
MasterBootRecord(sectorCount32) ==
    Zeros(kMbrBootstrapSize) \o PartitionEntry(sectorCount32) \o Zeros(48)
      \o LE16(kMbrSignature)

\* A variant that takes its two arguments in the other order.
BiosParameterBlock_Swapped(totalSectors32, fatSize32) ==
    LE16(kSectorSize) \o <<kSectorsPerCluster>> \o LE16(kReservedSectors)
      \o <<kFatCount>> \o LE16(0) \o LE16(0) \o <<kMediaDescriptor>> \o LE16(0)
      \o LE16(63) \o LE16(255) \o LE32(W32(kPartitionAlignmentSectors))
      \o LE32(fatSize32) \o LE32(totalSectors32) \o LE16(0) \o LE16(0)
      \o LE32(W32(kRootCluster)) \o LE16(kFsInfoSector) \o LE16(kBackupBootSector)
      \o Zeros(12)

\* struct BiosParameterBlock (53 bytes) with its default member initialisers.
BiosParameterBlock(totalSectors32, fatSize32) ==
    LE16(kSectorSize) \o <<kSectorsPerCluster>> \o LE16(kReservedSectors)
      \o <<kFatCount>> \o LE16(0) \o LE16(0) \o <<kMediaDescriptor>> \o LE16(0)
      \o LE16(63) \o LE16(255) \o LE32(W32(kPartitionAlignmentSectors))
      \o LE32(totalSectors32) \o LE32(fatSize32) \o LE16(0) \o LE16(0)
      \o LE32(W32(kRootCluster)) \o LE16(kFsInfoSector) \o LE16(kBackupBootSector)
      \o Zeros(12)

\* "MSWIN4.1" and "FAT32   "
OemName == <<77, 83, 87, 73, 78, 52, 46, 49>>
FsType == <<70, 65, 84, 51, 50, 32, 32, 32>>

\* A variant that lays the serial out before the two bytes that precede it.
VolumeBootRecord_SerialEarly(totalSectors32, fatSize32, volumeId32, volumeLabel) ==
    <<235, 88, 144>> \o OemName \o BiosParameterBlock(totalSectors32, fatSize32)
      \o <<128>> \o LE32(volumeId32) \o <<0, 41>> \o volumeLabel \o FsType
      \o Zeros(420) \o LE16(kVbrSignature)

\* struct VolumeBootRecord (512 bytes).
VolumeBootRecord(totalSectors32, fatSize32, volumeId32, volumeLabel) ==
    <<235, 88, 144>> \o OemName \o BiosParameterBlock(totalSectors32, fatSize32)
      \o <<128, 0, 41>> \o LE32(volumeId32) \o volumeLabel \o FsType
      \o Zeros(420) \o LE16(kVbrSignature)

\* SectorWriter.cpp: struct FAT32BootSector as writeFat32BootSector fills it.
SW_FAT32BootSector(totalSectors32, fatSize32, volumeId32, volumeLabel) ==
    <<235, 88, 144>> \o OemName
      \o LE16(kSectorSize) \o <<kSectorsPerCluster>> \o LE16(kReservedSectors)
      \o <<SW_kNumberFats>> \o LE16(0) \o LE16(0) \o <<kMediaDescriptor>> \o LE16(0)
      \o LE16(63) \o LE16(255) \o LE32(W32(kPartitionAlignmentSectors))
      \o LE32(totalSectors32) \o LE32(fatSize32) \o LE16(0) \o LE16(0)
      \o LE32(W32(kRootCluster)) \o LE16(kFsInfoSector) \o LE16(kBackupBootSector)
      \o Zeros(12) \o <<128, 0, 41>> \o LE32(volumeId32) \o volumeLabel \o FsType
      \o Zeros(420) \o LE16(SW_kFat32Signature)

\* 0x41615252, 0x61417272 and 0xAA550000
FsiLeadSignature == Hex32(16737, 21074)
FsiStructSignature == Hex32(24897, 29298)
FsiTrailSignature == Hex32(43605, 0)

\* struct FSInfo (512 bytes); the same fields in both implementations.
FSInfo(freeCount) ==
    LE32(FsiLeadSignature) \o Zeros(480) \o LE32(FsiStructSignature)
      \o LE32(freeCount) \o LE32(W32(3)) \o Zeros(12) \o LE32(FsiTrailSignature)

\* const uint32_t fatSector[128] of the FAT table writers.
FatSector ==
    LE32(Hex32(65535, 65280 + kMediaDescriptor)) \o LE32(Hex32(65535, 65535))
      \o LE32(Hex32(4095, 65535)) \o Zeros(4 * 125)

\* struct DirectoryEntry (32 bytes) holding a volume label.
DirectoryEntry(name) ==
    name \o <<kAttrVolumeId, 0, 0>> \o LE16(0) \o LE16(0) \o LE16(0) \o LE16(0)
      \o LE16(0) \o LE16(0) \o LE16(0) \o LE32(W32(0))

\* struct RootDirSector (512 bytes).
RootDirSector(name) == DirectoryEntry(name) \o Zeros(480)

ZeroSector == Zeros(kSectorSize)

\* std::byte buffer[kClusterBytes] = {} of zeroSectors.
ZeroBuffer == Zeros(kSectorsPerCluster * kSectorSize)

\* ------------------------------------------------------------- the device

\* What the device held at byte i (1-based) of sector s before the session.
PriorSector(s) ==
    [i \in 1..kSectorSize |->
        IF priorSeed = 0 THEN 0 ELSE (priorSeed + 7 * s + i) % U8]

\* How a written sector is stored, and the 512 bytes a stored sector holds.
Pack(img) == IF img = ZeroSector THEN <<>> ELSE img
Unpack(p) == IF p = <<>> THEN ZeroSector ELSE p

\* The 512 bytes of sector s on device dev.
SectorOf(dev, s) == IF s \in DOMAIN dev THEN Unpack(dev[s]) ELSE PriorSector(s)

\* Device dev after bytes data were stored from byte offset off on.
PutBytes(dev, off, data) ==
    IF data = <<>> THEN dev
    ELSE LET first == off \div kSectorSize
             last == (off + Len(data) - 1) \div kSectorSize
             image(s) ==
                 LET base == s * kSectorSize
                     lo == Max(off, base)
                     hi == Min(off + Len(data), base + kSectorSize)
                     new == SubSeq(data, lo - off + 1, hi - off)
                 IN  IF hi - lo = kSectorSize THEN Pack(new)
                     ELSE Pack(SubSeq(SectorOf(dev, s), 1, lo - base) \o new
                                 \o SubSeq(SectorOf(dev, s), hi - base + 1,
                                           kSectorSize))
         IN  [s \in (DOMAIN dev) \cup (first..last) |->
                 IF s \in first..last THEN image(s) ELSE dev[s]]

\* ------------------------------------------------- the system-call results
\* What one call of write(2) can return: a byte count, or -1 with errno set.

Accepts(n) == [ret |-> n, errno |-> "none"]
Eintr == [ret |-> -1, errno |-> "EINTR"]
Eio == [ret |-> -1, errno |-> "EIO"]

\* The environment of one writeBytes call: whether lseek succeeds, and what
\* the successive write calls return; past the script's end every write
\* accepts all the bytes it is given.
NoFault == [seekOk |-> TRUE, script |-> <<>>]

\* An operation's I/O context: the device, the writeBytes calls logged so
\* far, and the one call (by its position, 0 for none) that meets env.
IoStart(dev, at, env) == [dev |-> dev, calls |-> <<>>, at |-> at, env |-> env]
EnvOf(io) == IF Len(io.calls) + 1 = io.at THEN io.env ELSE NoFault

\* The errno of the system call that fails under env: the lseek (EINVAL
\* here), or the first write that fails with something other than EINTR.
ErrnoOf(env) ==
    IF ~env.seekOk THEN "EINVAL"
    ELSE LET failing == {i \in 1..Len(env.script) :
                            env.script[i].errno \notin {"none", "EINTR"}}
         IN  IF failing = {} THEN "none"
             ELSE env.script[CHOOSE i \in failing : \A j \in failing : i <= j].errno

\* errno.h: the values of the error numbers above.
ErrnoValue(e) ==
    CASE e = "none" -> 0 [] e = "EINTR" -> 4 [] e = "EIO" -> 5 [] e = "EINVAL" -> 22

\* SDFormatResult.h: the values of the enumerators.
ResultValue(res) ==
    CASE res = Success -> 0 [] res = InvalidDevice -> 3 [] res = IOError -> 4
      [] res = TooSmall -> 5

\* What a writeBytes call returns: its result, the context after it (the call
\* logged: where, how many bytes, which bytes, with an all-zero span logged as
\* the empty sequence, and the errno of the system call that failed) and the
\* number of system calls it made.
Returned(res, io, dev, off, data, sys) ==
    [res |-> res,
     sys |-> sys,
     io |-> [io EXCEPT !.dev = dev,
                        !.calls = Append(@, [off |-> off, len |-> Len(data),
                                             data |-> IF data = Zeros(Len(data))
                                                      THEN <<>> ELSE data,
                                             res |-> res,
                                             errno |-> IF res = IOError
                                                       THEN ErrnoOf(EnvOf(io))
                                                       ELSE "none"])]]

\* The while (remaining > 0) loop of writeBytes: k bytes are written so far,
\* nw write calls were issued.
RECURSIVE WriteLoop(_, _, _, _, _, _)
WriteLoop(dev, offset, data, k, script, nw) ==
    IF k = Len(data) THEN [res |-> Success, dev |-> dev, nw |-> nw]
    ELSE LET remaining == Len(data) - k
             written == IF script = <<>> THEN Accepts(remaining) ELSE Head(script)
             rest == IF script = <<>> THEN <<>> ELSE Tail(script)
         IN  IF written.ret = -1
             THEN IF written.errno = "EINTR"
                  THEN WriteLoop(dev, offset, data, k, rest, nw + 1)
                  ELSE [res |-> IOError, dev |-> dev, nw |-> nw + 1]
             ELSE LET n == Min(written.ret, remaining)
                  IN  WriteLoop(PutBytes(dev, offset + k, SubSeq(data, k + 1, k + n)),
                                offset, data, k + n, rest, nw + 1)

\* SDFormat.cpp: SDFormatResult writeBytes(int fd, off_t offset, span data)
writeBytes(fdArg, offset, data, io) ==
    IF data = <<>> THEN Returned(Success, io, io.dev, offset, data, 0)
    ELSE IF fdArg < 0 THEN Returned(InvalidDevice, io, io.dev, offset, data, 0)
    ELSE IF ~EnvOf(io).seekOk THEN Returned(IOError, io, io.dev, offset, data, 1)
    ELSE LET r == WriteLoop(io.dev, offset, data, 0, EnvOf(io).script, 0)
         IN  Returned(r.res, io, r.dev, offset, data, 1 + r.nw)

\* SDFormat.cpp: template writeSector(int fd, off_t sectorLba, const T& sector)
writeSector(fdArg, sectorLba, sector, io) ==
    writeBytes(fdArg, sectorLba * kSectorSize, sector, io)

\* The loop of zeroSectors, from byte offset on, remaining sectors to go.
RECURSIVE ZeroLoop(_, _, _, _)
ZeroLoop(fdArg, offset, remaining, io) ==
    IF remaining = 0 THEN [res |-> Success, sys |-> 0, io |-> io]
    ELSE LET toWrite == Min(remaining, kSectorsPerCluster)
             bytes == toWrite * kSectorSize
             result == writeBytes(fdArg, offset, SubSeq(ZeroBuffer, 1, bytes), io)
         IN  IF result.res # Success THEN result
             ELSE ZeroLoop(fdArg, offset + bytes, remaining - toWrite, result.io)

\* A variant that zeroes the region with one writeBytes call.
zeroSectors_OneChunk(fdArg, startSector, count, io) ==
    writeBytes(fdArg, startSector * kSectorSize, Zeros(count * kSectorSize), io)


\* SDFormat.cpp: zeroSectors(int fd, off_t startSector, uint32_t sectorCount)
zeroSectors(fdArg, startSector, count, io) ==
    ZeroLoop(fdArg, startSector * kSectorSize, count, io)

\* SectorWriter::writeBytes
SW_writeBytes(fdArg, offset, data, io) ==
    IF fdArg < 0 \/ data = <<>>
    THEN Returned(InvalidDevice, io, io.dev, offset, data, 0)
    ELSE IF ~EnvOf(io).seekOk THEN Returned(IOError, io, io.dev, offset, data, 1)
    ELSE LET r == WriteLoop(io.dev, offset, data, 0, EnvOf(io).script, 0)
         IN  Returned(r.res, io, r.dev, offset, data, 1 + r.nw)

\* SectorWriter::writeSectors
SW_writeSectors(fdArg, sectorLba, data, io) ==
    SW_writeBytes(fdArg, sectorLba * kSectorSize, data, io)

\* The loop of SectorWriter::zeroSectors, at sector current.
RECURSIVE SW_ZeroLoop(_, _, _, _)
SW_ZeroLoop(fdArg, current, remaining, io) ==
    IF remaining = 0 THEN [res |-> Success, sys |-> 0, io |-> io]
    ELSE LET toWrite == IF remaining > kSectorsPerCluster
                        THEN kSectorsPerCluster ELSE remaining
             res == SW_writeSectors(fdArg, current,
                                    SubSeq(ZeroBuffer, 1, toWrite * kSectorSize), io)
         IN  IF res.res # Success THEN res
             ELSE SW_ZeroLoop(fdArg, current + toWrite, remaining - toWrite, res.io)

\* SectorWriter::zeroSectors
SW_zeroSectors(fdArg, startSector, count, io) ==
    SW_ZeroLoop(fdArg, startSector, count, io)

\* ------------------------------------------- the operations of SDFormat.cpp

\* A variant whose partition entry spans the sector count of the device.
sdFormatWriteMBR_WholeDevice(fdArg, sectorCount, io) ==
    writeSector(fdArg, 0, MasterBootRecord(Narrow32(sectorCount)), io)

\* SDFormatResult sdFormatWriteMBR(int fd, uint64_t sectorCount)
sdFormatWriteMBR(fdArg, sectorCount, io) ==
    writeSector(fdArg, 0,
                MasterBootRecord(Narrow32(partitionSectorCount(sectorCount))), io)

\* A variant that places the backup at sector 6 of the device, not of the
\* partition.
sdFormatWriteVolumeBootRecord_BackupAtSix(fdArg, sectorCount, text, now, io) ==
    LET vbr == VolumeBootRecord(Narrow32(partitionSectorCount(sectorCount)),
                                fatSizeSectors(sectorCount), Narrow32(now),
                                prepareVolumeLabel(text))
        result == writeSector(fdArg, kPartitionAlignmentSectors, vbr, io)
    IN  IF result.res # Success THEN result
        ELSE writeSector(fdArg, kBackupBootSector, vbr, result.io)

\* sdFormatWriteVolumeBootRecord(int fd, uint64_t sectorCount, const char* label);
\* now is what time(nullptr) returns.
sdFormatWriteVolumeBootRecord(fdArg, sectorCount, text, now, io) ==
    LET vbr == VolumeBootRecord(Narrow32(partitionSectorCount(sectorCount)),
                                fatSizeSectors(sectorCount), Narrow32(now),
                                prepareVolumeLabel(text))
        result == writeSector(fdArg, kPartitionAlignmentSectors, vbr, io)
    IN  IF result.res # Success THEN result
        ELSE writeSector(fdArg, kPartitionAlignmentSectors + kBackupBootSector,
                         vbr, result.io)

\* A variant that places the FSInfo sector two sectors after the boot sector.
sdFormatWriteFSInfo_TwoAfter(fdArg, sectorCount, io) ==
    LET fsinfo == FSInfo(freeClusterCount(sectorCount))
        result == writeSector(fdArg, kPartitionAlignmentSectors + kFsInfoSector + 1,
                              fsinfo, io)
    IN  IF result.res # Success THEN result
        ELSE writeSector(fdArg, kPartitionAlignmentSectors + kBackupBootSector + 1,
                         fsinfo, result.io)


\* SDFormatResult sdFormatWriteFSInfo(int fd, uint64_t sectorCount)
sdFormatWriteFSInfo(fdArg, sectorCount, io) ==
    LET fsinfo == FSInfo(freeClusterCount(sectorCount))
        result == writeSector(fdArg, kPartitionAlignmentSectors + kFsInfoSector,
                              fsinfo, io)
    IN  IF result.res # Success THEN result
        ELSE writeSector(fdArg, kPartitionAlignmentSectors + kBackupBootSector + 1,
                         fsinfo, result.io)

\* A variant that starts the second copy one sector late.
sdFormatWriteFat32Tables_SecondCopyShifted(fdArg, sectorCount, io) ==
    LET fatSize == ToInt(fatSizeSectors(sectorCount))
        r1 == zeroSectors(fdArg, kFatStartSector, fatSize, io)
        r2 == writeSector(fdArg, kFatStartSector, FatSector, r1.io)
        r3 == zeroSectors(fdArg, kFatStartSector + fatSize + 1, fatSize, r2.io)
    IN  IF r1.res # Success THEN r1
        ELSE IF r2.res # Success THEN r2
        ELSE IF r3.res # Success THEN r3
        ELSE writeSector(fdArg, kFatStartSector + fatSize + 1, FatSector, r3.io)

\* A variant that goes on to the first sector and to the second copy after a
\* write failed, and reports the first failure at the end.
sdFormatWriteFat32Tables_GoesOn(fdArg, sectorCount, io) ==
    LET fatSize == ToInt(fatSizeSectors(sectorCount))
        r1 == zeroSectors(fdArg, kFatStartSector, fatSize, io)
        r2 == writeSector(fdArg, kFatStartSector, FatSector, r1.io)
        r3 == zeroSectors(fdArg, kFatStartSector + fatSize, fatSize, r2.io)
        r4 == writeSector(fdArg, kFatStartSector + fatSize, FatSector, r3.io)
    IN  IF r1.res # Success THEN [r4 EXCEPT !.res = r1.res]
        ELSE IF r2.res # Success THEN [r4 EXCEPT !.res = r2.res]
        ELSE IF r3.res # Success THEN [r4 EXCEPT !.res = r3.res]
        ELSE r4

\* SDFormatResult sdFormatWriteFat32Tables(int fd, uint64_t sectorCount)
sdFormatWriteFat32Tables(fdArg, sectorCount, io) ==
    LET fatSize == ToInt(fatSizeSectors(sectorCount))
        r1 == zeroSectors(fdArg, kFatStartSector, fatSize, io)
        r2 == writeSector(fdArg, kFatStartSector, FatSector, r1.io)
        r3 == zeroSectors(fdArg, kFatStartSector + fatSize, fatSize, r2.io)
    IN  IF r1.res # Success THEN r1
        ELSE IF r2.res # Success THEN r2
        ELSE IF r3.res # Success THEN r3
        ELSE writeSector(fdArg, kFatStartSector + fatSize, FatSector, r3.io)

\* A variant that zeroes one sector more than a cluster.
sdFormatWriteRootDirectory_OneTooMany(fdArg, sectorCount, text, io) ==
    LET volumeLabel == prepareVolumeLabel(text)
        dataStart == ToInt(dataStartSector(sectorCount))
        result == zeroSectors(fdArg, dataStart, kSectorsPerCluster + 1, io)
    IN  IF result.res # Success THEN result
        ELSE writeSector(fdArg, dataStart, RootDirSector(volumeLabel), result.io)

\* sdFormatWriteRootDirectory(int fd, uint64_t sectorCount, const char* label)
sdFormatWriteRootDirectory(fdArg, sectorCount, text, io) ==
    LET volumeLabel == prepareVolumeLabel(text)
        dataStart == ToInt(dataStartSector(sectorCount))
        result == zeroSectors(fdArg, dataStart, kSectorsPerCluster, io)
    IN  IF result.res # Success THEN result
        ELSE writeSector(fdArg, dataStart, RootDirSector(volumeLabel), result.io)

\* ------------------------------------------------ the operations of SectorWriter

\* SectorWriter::writeMBR
SW_writeMBR(self, io) ==
    SW_writeSectors(self.fd_, 0,
                    MasterBootRecord(Narrow32(self.mbrPartitionSectorCount_)), io)

\* SectorWriter::writeFat32BootSector (declared as writeVolumeBootRecord)
SW_writeFat32BootSector(self, now, io) ==
    LET bootSector == SW_FAT32BootSector(Narrow32(self.mbrPartitionSectorCount_),
                                         self.fatSizeSectors_, Narrow32(now),
                                         self.volumeLabel_)
        result == SW_writeSectors(self.fd_, kPartitionAlignmentSectors, bootSector, io)
    IN  IF result.res # Success THEN result
        ELSE SW_writeSectors(self.fd_, kPartitionAlignmentSectors + kBackupBootSector,
                             bootSector, result.io)

\* SectorWriter::writeFSInfo
SW_writeFSInfo(self, io) ==
    LET fsinfo == FSInfo(self.freeClusterCount_)
        r == SW_writeSectors(self.fd_, kPartitionAlignmentSectors + kFsInfoSector,
                             fsinfo, io)
    IN  IF r.res # Success THEN [res |-> IOError, sys |-> 0, io |-> r.io]
        ELSE [res |-> Success, sys |-> 0, io |-> r.io]

\* SectorWriter::writeFat32Tables
SW_writeFat32Tables(self, io) ==
    LET fatStart == ToInt(self.fatStartSector_)
        fatSize == ToInt(self.fatSizeSectors_)
        r1 == SW_zeroSectors(self.fd_, fatStart, fatSize, io)
        r2 == SW_writeSectors(self.fd_, fatStart, FatSector, r1.io)
        r3 == SW_zeroSectors(self.fd_, fatStart + fatSize, fatSize, r2.io)
        r4 == SW_writeSectors(self.fd_, fatStart + fatSize, FatSector, r3.io)
    IN  IF r1.res # Success THEN [res |-> IOError, sys |-> 0, io |-> r1.io]
        ELSE IF r2.res # Success THEN [res |-> IOError, sys |-> 0, io |-> r2.io]
        ELSE IF r3.res # Success THEN [res |-> IOError, sys |-> 0, io |-> r3.io]
        ELSE IF r4.res # Success THEN [res |-> IOError, sys |-> 0, io |-> r4.io]
        ELSE [res |-> Success, sys |-> 0, io |-> r4.io]

\* SectorWriter::writeRootDirectory
SW_writeRootDirectory(self, io) ==
    LET dataStart == ToInt(self.dataStartSector_)
        r1 == SW_zeroSectors(self.fd_, dataStart, kSectorsPerCluster, io)
        r2 == SW_writeSectors(self.fd_, dataStart,
                              RootDirSector(self.volumeLabel_), r1.io)
    IN  IF r1.res # Success THEN [res |-> IOError, sys |-> 0, io |-> r1.io]
        ELSE IF r2.res # Success THEN [res |-> IOError, sys |-> 0, io |-> r2.io]
        ELSE [res |-> Success, sys |-> 0, io |-> r2.io]

\* ----------------------------------------------------------------- inputs

\* Total sector counts: below the minimum size (the data region holds less
\* than a cluster), the minimum SectorWriter::make accepts, one where the two
\* FAT size derivations differ, and one whose FAT spans two zeroing chunks.
SectorCounts == {8256, 18432, 24609, 532577}

\* "r4" and "ThisIsWayTooLongALabel"
Labels ==
    {<<114, 52>>,
     <<84, 104, 105, 115, 73, 115, 87, 97, 121, 84, 111, 111, 76, 111, 110, 103,
       65, 76, 97, 98, 101, 108>>}

\* What time(nullptr) may return: 1762300800 and 2^32 + 5.
Times == {W64(1762300800), <<5, 0, 1, 0>>}

Handles == {-1, 3}
PriorSeeds == {0, 165}

\* What the faulty writeBytes call of an operation may meet: an interrupted
\* and a short write before the rest is accepted, a failing lseek, a failing
\* first write, a failing write after 100 bytes were accepted.
Envs ==
    {[seekOk |-> TRUE, script |-> <<Eintr, Accepts(100)>>],
     [seekOk |-> FALSE, script |-> <<>>],
     [seekOk |-> TRUE, script |-> <<Eio>>],
     [seekOk |-> TRUE, script |-> <<Accepts(100), Eio>>]}

\* What an operation may meet after n earlier operations: no trouble, or one
\* of its calls meeting one of Envs.
Faults(n) ==
    {[at |-> 0, env |-> NoFault]}
      \cup IF mode = "tool" \/ n <= MaxOpsBeforeFault
           THEN [at : 1..MaxFaultAt, env : Envs]
           ELSE {}

Ops == {"mbr", "vbr", "fsinfo", "fat", "root"}

\* ------------------------------------------------------------------- Init

NoWriter == [state |-> "none", obj |-> <<>>]

\* No call of an I/O primitive taken alone.
NoCall == [pc |-> "none"]

Init ==
    /\ mode \in {"capi", "sw", "tool"}
    /\ handle \in Handles
    /\ totalSectors \in {W64(n) : n \in SectorCounts}
    /\ labelText \in Labels
    /\ priorSeed \in PriorSeeds
    /\ disk = <<>>
    /\ done = {}
    /\ lastOp = "none"
    /\ lastRes = "none"
    /\ calls = <<>>
    /\ volumeId = W32(0)
    /\ sw = NoWriter
    /\ pc = IF mode = "tool" THEN "open" ELSE "lib"
    /\ exitStatus = -1
    /\ closed = FALSE
    /\ prepared = <<>>
    /\ prim = NoCall

\* ---------------------------------------------------------------- actions

\* The state after operation op returned r.
Finish(op, r) ==
    /\ disk' = r.io.dev
    /\ calls' = r.io.calls
    /\ lastOp' = op
    /\ lastRes' = r.res
    /\ done' = done \cup {op}

\* A library caller invokes each operation at most once, in any order, and
\* stops at the first failure.
CanInvoke(op) == op \notin done /\ lastRes \in {"none", Success}

Session == <<mode, handle, totalSectors, labelText, priorSeed, prepared, prim>>

\* A caller of the C API invokes sdFormatWriteMBR.
CallWriteMBR ==
    /\ mode = "capi" /\ CanInvoke("mbr")
    /\ \E f \in Faults(Cardinality(done)) :
          Finish("mbr", sdFormatWriteMBR(handle, totalSectors,
                                         IoStart(disk, f.at, f.env)))
    /\ UNCHANGED <<Session, volumeId, sw, pc, exitStatus, closed>>

CallWriteVolumeBootRecord ==
    /\ mode = "capi" /\ CanInvoke("vbr")
    /\ \E f \in Faults(Cardinality(done)), now \in Times :
          /\ Finish("vbr", sdFormatWriteVolumeBootRecord(
                               handle, totalSectors, labelText, now,
                               IoStart(disk, f.at, f.env)))
          /\ volumeId' = Narrow32(now)
    /\ UNCHANGED <<Session, sw, pc, exitStatus, closed>>

CallWriteFSInfo ==
    /\ mode = "capi" /\ CanInvoke("fsinfo")
    /\ \E f \in Faults(Cardinality(done)) :
          Finish("fsinfo", sdFormatWriteFSInfo(handle, totalSectors,
                                               IoStart(disk, f.at, f.env)))
    /\ UNCHANGED <<Session, volumeId, sw, pc, exitStatus, closed>>

CallWriteFat32Tables ==
    /\ mode = "capi" /\ CanInvoke("fat")
    /\ \E f \in Faults(Cardinality(done)) :
          Finish("fat", sdFormatWriteFat32Tables(handle, totalSectors,
                                                 IoStart(disk, f.at, f.env)))
    /\ UNCHANGED <<Session, volumeId, sw, pc, exitStatus, closed>>

CallWriteRootDirectory ==
    /\ mode = "capi" /\ CanInvoke("root")
    /\ \E f \in Faults(Cardinality(done)) :
          Finish("root", sdFormatWriteRootDirectory(handle, totalSectors, labelText,
                                                    IoStart(disk, f.at, f.env)))
    /\ UNCHANGED <<Session, volumeId, sw, pc, exitStatus, closed>>

\* SectorWriter::make.  Below kMinSectorsForMBR the assert aborts the process
\* in a build that keeps assertions and is no check at all under NDEBUG.
SwMake ==
    /\ mode = "sw" /\ sw.state = "none"
    /\ \E ndebug \in BOOLEAN :
          sw' = IF LessW(totalSectors, W64(SW_kMinSectorsForMBR)) /\ ~ndebug
                THEN [state |-> "aborted", obj |-> <<>>]
                ELSE [state |-> "made",
                      obj |-> SW_make(handle, totalSectors, labelText)]
    /\ UNCHANGED <<Session, disk, done, lastOp, lastRes, calls,
                   volumeId, pc, exitStatus, closed>>

SwWriteMBR ==
    /\ mode = "sw" /\ sw.state = "made" /\ CanInvoke("mbr")
    /\ \E f \in Faults(Cardinality(done)) :
          Finish("mbr", SW_writeMBR(sw.obj, IoStart(disk, f.at, f.env)))
    /\ UNCHANGED <<Session, volumeId, sw, pc, exitStatus, closed>>

SwWriteFat32BootSector ==
    /\ mode = "sw" /\ sw.state = "made" /\ CanInvoke("vbr")
    /\ \E f \in Faults(Cardinality(done)), now \in Times :
          /\ Finish("vbr", SW_writeFat32BootSector(sw.obj, now,
                                                   IoStart(disk, f.at, f.env)))
          /\ volumeId' = Narrow32(now)
    /\ UNCHANGED <<Session, sw, pc, exitStatus, closed>>

SwWriteFSInfo ==
    /\ mode = "sw" /\ sw.state = "made" /\ CanInvoke("fsinfo")
    /\ \E f \in Faults(Cardinality(done)) :
          Finish("fsinfo", SW_writeFSInfo(sw.obj, IoStart(disk, f.at, f.env)))
    /\ UNCHANGED <<Session, volumeId, sw, pc, exitStatus, closed>>

SwWriteFat32Tables ==
    /\ mode = "sw" /\ sw.state = "made" /\ CanInvoke("fat")
    /\ \E f \in Faults(Cardinality(done)) :
          Finish("fat", SW_writeFat32Tables(sw.obj, IoStart(disk, f.at, f.env)))
    /\ UNCHANGED <<Session, volumeId, sw, pc, exitStatus, closed>>

SwWriteRootDirectory ==
    /\ mode = "sw" /\ sw.state = "made" /\ CanInvoke("root")
    /\ \E f \in Faults(Cardinality(done)) :
          Finish("root", SW_writeRootDirectory(sw.obj, IoStart(disk, f.at, f.env)))
    /\ UNCHANGED <<Session, volumeId, sw, pc, exitStatus, closed>>

\* A variant of main that reports a failure and carries on with the next
\* operation.
ToolAfter_CarriesOn(res, next) ==
    /\ pc' = next
    /\ exitStatus' = IF res # Success THEN 1
                     ELSE IF next = "exit" /\ exitStatus = -1 THEN 0 ELSE exitStatus
    /\ closed' = (next = "exit")

\* FormatImage.cpp, main: what follows an operation that returned res.
ToolAfter(res, next) ==
    /\ pc' = IF res = Success THEN next ELSE "exit"
    /\ exitStatus' = IF res # Success THEN 1
                     ELSE IF next = "exit" THEN 0 ELSE exitStatus
    /\ closed' = (res # Success \/ next = "exit")

\* main: open(path, O_RDWR) gave handle.
ToolOpen ==
    /\ mode = "tool" /\ pc = "open"
    /\ pc' = IF handle < 0 THEN "exit" ELSE "mbr"
    /\ exitStatus' = IF handle < 0 THEN 1 ELSE exitStatus
    /\ UNCHANGED <<Session, disk, done, lastOp, lastRes, calls,
                   volumeId, sw, closed>>

ToolWriteMBR ==
    /\ mode = "tool" /\ pc = "mbr"
    /\ \E f \in Faults(Cardinality(done)) :
          LET r == sdFormatWriteMBR(handle, totalSectors, IoStart(disk, f.at, f.env))
          IN  Finish("mbr", r) /\ ToolAfter(r.res, "vbr")
    /\ UNCHANGED <<Session, volumeId, sw>>

ToolWriteVBR ==
    /\ mode = "tool" /\ pc = "vbr"
    /\ \E f \in Faults(Cardinality(done)), now \in Times :
          LET r == sdFormatWriteVolumeBootRecord(handle, totalSectors, labelText, now,
                                                 IoStart(disk, f.at, f.env))
          IN  Finish("vbr", r) /\ ToolAfter(r.res, "fsinfo")
                /\ volumeId' = Narrow32(now)
    /\ UNCHANGED <<Session, sw>>

ToolWriteFSInfo ==
    /\ mode = "tool" /\ pc = "fsinfo"
    /\ \E f \in Faults(Cardinality(done)) :
          LET r == sdFormatWriteFSInfo(handle, totalSectors, IoStart(disk, f.at, f.env))
          IN  Finish("fsinfo", r) /\ ToolAfter(r.res, "fat")
    /\ UNCHANGED <<Session, volumeId, sw>>

ToolWriteFatTables ==
    /\ mode = "tool" /\ pc = "fat"
    /\ \E f \in Faults(Cardinality(done)) :
          LET r == sdFormatWriteFat32Tables(handle, totalSectors,
                                            IoStart(disk, f.at, f.env))
          IN  Finish("fat", r) /\ ToolAfter(r.res, "root")
    /\ UNCHANGED <<Session, volumeId, sw>>

ToolWriteRootDirectory ==
    /\ mode = "tool" /\ pc = "root"
    /\ \E f \in Faults(Cardinality(done)) :
          LET r == sdFormatWriteRootDirectory(handle, totalSectors, labelText,
                                              IoStart(disk, f.at, f.env))
          IN  Finish("root", r) /\ ToolAfter(r.res, "exit")
    /\ UNCHANGED <<Session, volumeId, sw>>

Next ==
    \/ CallWriteMBR
    \/ CallWriteVolumeBootRecord
    \/ CallWriteFSInfo
    \/ CallWriteFat32Tables
    \/ CallWriteRootDirectory
    \/ SwMake
    \/ SwWriteMBR
    \/ SwWriteFat32BootSector
    \/ SwWriteFSInfo
    \/ SwWriteFat32Tables
    \/ SwWriteRootDirectory
    \/ ToolOpen
    \/ ToolWriteMBR
    \/ ToolWriteVBR
    \/ ToolWriteFSInfo
    \/ ToolWriteFatTables
    \/ ToolWriteRootDirectory

Spec == Init /\ [][Next]_vars

\* ------------------------------------------- label preparation taken alone

\* The characters label texts are made of: a, z, A, 4, space, the two codes
\* next to the lower-case letters, and a code above 127.
LabelAlphabet == {97, 122, 65, 52, 32, 96, 123, 233}

\* Texts of at most MaxTail characters, alone or after "FlashCard_" (ten
\* characters), so that lengths below, at and above 11 occur.
MaxTail == 2
Tails == UNION {[1..n -> LabelAlphabet] : n \in 0..MaxTail}
TenChars == <<70, 108, 97, 115, 104, 67, 97, 114, 100, 95>>
LabelInputs == Labels \cup Tails \cup {TenChars \o t : t \in Tails}

InitLabel ==
    /\ mode \in {"capi", "sw"}
    /\ labelText \in LabelInputs
    /\ prepared = <<>>
    /\ pc = "label"
    /\ handle = 3
    /\ totalSectors = W64(SW_kMinSectorsForMBR)
    /\ priorSeed = 0
    /\ disk = <<>>
    /\ done = {}
    /\ lastOp = "none"
    /\ lastRes = "none"
    /\ calls = <<>>
    /\ volumeId = W32(0)
    /\ sw = NoWriter
    /\ exitStatus = -1
    /\ closed = FALSE
    /\ prim = NoCall

\* The prepareVolumeLabel of the session's implementation.
PrepareVolumeLabelOf(text) ==
    IF mode = "sw" THEN SW_prepareVolumeLabel(text) ELSE prepareVolumeLabel(text)

\* auto volumeLabel = prepareVolumeLabel(label);
PrepareLabel ==
    /\ pc = "label" /\ prepared = <<>>
    /\ prepared' = <<PrepareVolumeLabelOf(labelText)>>
    /\ UNCHANGED <<mode, handle, totalSectors, labelText, priorSeed, disk, done,
                   lastOp, lastRes, calls, volumeId, sw, pc, exitStatus, closed,
                   prim>>

\* The label a session got is the label text of a next session.
PrepareAgain ==
    /\ pc = "label" /\ Len(prepared) = 1
    /\ prepared' = Append(prepared, PrepareVolumeLabelOf(prepared[1]))
    /\ UNCHANGED <<mode, handle, totalSectors, labelText, priorSeed, disk, done,
                   lastOp, lastRes, calls, volumeId, sw, pc, exitStatus, closed,
                   prim>>

NextLabel == PrepareLabel \/ PrepareAgain

SpecLabel == InitLabel /\ [][NextLabel]_vars

\* ------------------------------------------- the I/O primitives, taken alone
\* One call of writeBytes on a device, each system call a step; or one call
\* of zeroSectors.  The state of the call is prim: where it is (pc), its
\* arguments, what its system calls return (given) and what those to come
\* return (env), the locals ptr (as
\* the number of bytes it is past data.data()) and remaining, whether lseek
\* and write were called, the last write call (where on the device it wrote,
\* how many bytes it asked for, what it returned), the number of bytes the
\* device accepted in all, whether the number of write calls made is odd
\* (parity), and the result returned.

\* The longest sequence of write results given one by one.
MaxScript == 2

WriteOffsets == {0, 510}
WriteDatas == {<<>>, <<7>>, <<7, 8, 9>>}

\* What write(2) may return: a byte count (0 included), or -1 with errno set.
WriteResults == {Accepts(0), Accepts(1), Accepts(2), Eintr, Eio}
Scripts == UNION {[1..n -> WriteResults] : n \in 0..MaxScript}

\* What the system calls of one writeBytes call return: lseek succeeds or
\* not; the first write calls return what script lists, and every later one
\* accepts all it is given ("all") or returns 0 ("nothing").  The calls
\* interrupted with EINTR are those of the script: finitely many.
WriteEnvs == [seekOk : BOOLEAN, script : Scripts, then : {"all", "nothing"}]

NoWrite == [pos |-> -1, count |-> 0, res |-> Accepts(0)]

\* A call of writeBytes(fd, offset, data) at its entry.
WriteCall(offset, data, env) ==
    [op |-> "writeBytes", pc |-> "entry", offset |-> offset, data |-> data,
     given |-> env, env |-> env, ptr |-> 0, remaining |-> 0, sought |-> FALSE,
     wrote |-> FALSE, parity |-> 0, last |-> NoWrite, accepted |-> 0,
     result |-> "none"]

\* A call of zeroSectors(fd, startSector, sectorCount) at its entry; its
\* at-th writeBytes call meets env.
ZeroCall(startSector, sectorCount, at, env) ==
    [op |-> "zeroSectors", pc |-> "zero", startSector |-> startSector,
     sectorCount |-> sectorCount, at |-> at, env |-> env]

ZeroStarts == {0, 70}
ZeroCounts == {0, 1, 64, 65, 130}

\* The caller before it calls a primitive.
Idle == [op |-> "none", pc |-> "idle"]

InitIO ==
    /\ mode \in {"capi", "sw"}
    /\ handle \in Handles
    /\ priorSeed \in PriorSeeds
    /\ prim = Idle
    /\ pc = "prim"
    /\ totalSectors = W64(SW_kMinSectorsForMBR)
    /\ labelText = <<>>
    /\ disk = <<>>
    /\ done = {}
    /\ lastOp = "none"
    /\ lastRes = "none"
    /\ calls = <<>>
    /\ volumeId = W32(0)
    /\ sw = NoWriter
    /\ exitStatus = -1
    /\ closed = FALSE
    /\ prepared = <<>>

Returning(p, res) == [p EXCEPT !.pc = "done", !.result = res]

\* A variant that passes any descriptor on to lseek.
writeBytes_Entry_AnyHandle(fdArg, p) ==
    IF p.data = <<>> THEN Returning(p, Success)
    ELSE [p EXCEPT !.pc = "seek"]


\* writeBytes before its first system call: if (data.empty()) return
\* SDFormatSuccess; if (fd < 0) return SDFormatInvalidDevice;
writeBytes_Entry(fdArg, p) ==
    IF p.data = <<>> THEN Returning(p, Success)
    ELSE IF fdArg < 0 THEN Returning(p, InvalidDevice)
    ELSE [p EXCEPT !.pc = "seek"]

\* SectorWriter::writeBytes before its first system call: if (fd < 0 ||
\* data.empty()) return SDFormatResult::InvalidDevice;
SW_writeBytes_Entry(fdArg, p) ==
    IF fdArg < 0 \/ p.data = <<>> THEN Returning(p, InvalidDevice)
    ELSE [p EXCEPT !.pc = "seek"]

\* if (lseek(fd, offset, SEEK_SET) == -1) return SDFormatIOError;
\* const std::byte* ptr = data.data(); size_t remaining = data.size();
writeBytes_Seek(p) ==
    IF ~p.env.seekOk THEN Returning([p EXCEPT !.sought = TRUE], IOError)
    ELSE [p EXCEPT !.pc = "loop", !.sought = TRUE, !.ptr = 0,
                   !.remaining = Len(p.data)]

\* What write(fd, ptr, remaining) returns next: never more than remaining.
NextWritten(p) ==
    LET r == IF p.env.script # <<>> THEN Head(p.env.script)
             ELSE IF p.env.then = "all" THEN Accepts(p.remaining)
             ELSE Accepts(0)
    IN  IF r.ret > p.remaining THEN Accepts(p.remaining) ELSE r

\* A variant that gives up the bytes a short write left over.
writeBytes_Loop_ShortIsAll(p, dev) ==
    IF p.remaining = 0 THEN [prim |-> Returning(p, Success), dev |-> dev]
    ELSE LET written == NextWritten(p)
             q == [p EXCEPT !.env.script = IF @ = <<>> THEN <<>> ELSE Tail(@),
                            !.wrote = TRUE, !.parity = 1 - @,
                            !.last = [pos |-> p.offset + p.ptr,
                                      count |-> p.remaining, res |-> written]]
         IN  IF written.ret = -1
             THEN IF written.errno = "EINTR" THEN [prim |-> q, dev |-> dev]
                  ELSE [prim |-> Returning(q, IOError), dev |-> dev]
             ELSE [prim |-> [q EXCEPT !.ptr = @ + written.ret,
                                      !.remaining = 0,
                                      !.accepted = @ + written.ret],
                   dev |-> PutBytes(dev, p.offset + p.ptr,
                                    SubSeq(p.data, p.ptr + 1,
                                           p.ptr + written.ret))]

\* A variant that tries again after every failed write.
writeBytes_Loop_RetriesAll(p, dev) ==
    IF p.remaining = 0 THEN [prim |-> Returning(p, Success), dev |-> dev]
    ELSE LET written == NextWritten(p)
             q == [p EXCEPT !.env.script = IF @ = <<>> THEN <<>> ELSE Tail(@),
                            !.wrote = TRUE, !.parity = 1 - @,
                            !.last = [pos |-> p.offset + p.ptr,
                                      count |-> p.remaining, res |-> written]]
         IN  IF written.ret = -1 THEN [prim |-> q, dev |-> dev]
             ELSE [prim |-> [q EXCEPT !.ptr = @ + written.ret,
                                      !.remaining = @ - written.ret,
                                      !.accepted = @ + written.ret],
                   dev |-> PutBytes(dev, p.offset + p.ptr,
                                    SubSeq(p.data, p.ptr + 1,
                                           p.ptr + written.ret))]

\* One pass of while (remaining > 0) { written = write(fd, ptr, remaining);
\* if (written == -1) { if (errno == EINTR) continue; return SDFormatIOError; }
\* ptr += written; remaining -= written; } return SDFormatSuccess;
\* the same text in SectorWriter::writeBytes.
writeBytes_Loop(p, dev) ==
    IF p.remaining = 0 THEN [prim |-> Returning(p, Success), dev |-> dev]
    ELSE LET written == NextWritten(p)
             q == [p EXCEPT !.env.script = IF @ = <<>> THEN <<>> ELSE Tail(@),
                            !.wrote = TRUE, !.parity = 1 - @,
                            !.last = [pos |-> p.offset + p.ptr,
                                      count |-> p.remaining, res |-> written]]
         IN  IF written.ret = -1
             THEN IF written.errno = "EINTR" THEN [prim |-> q, dev |-> dev]
                  ELSE [prim |-> Returning(q, IOError), dev |-> dev]
             ELSE [prim |-> [q EXCEPT !.ptr = @ + written.ret,
                                      !.remaining = @ - written.ret,
                                      !.accepted = @ + written.ret],
                   dev |-> PutBytes(dev, p.offset + p.ptr,
                                    SubSeq(p.data, p.ptr + 1,
                                           p.ptr + written.ret))]

Alone == <<mode, handle, totalSectors, labelText, priorSeed, prepared, done,
           lastOp, volumeId, sw, pc, exitStatus, closed>>

\* The caller calls writeBytes, or zeroSectors with no fault or with one at
\* one of its first three writeBytes calls.
IoCall ==
    /\ pc = "prim" /\ prim.pc = "idle"
    /\ prim' \in {WriteCall(o, d, e) : o \in WriteOffsets, d \in WriteDatas,
                                       e \in WriteEnvs}
           \cup {ZeroCall(s, n, f.at, f.env) :
                    s \in ZeroStarts, n \in ZeroCounts,
                    f \in {[at |-> 0, env |-> NoFault]}
                            \cup [at : 1..3, env : Envs]}
    /\ UNCHANGED <<Alone, disk, calls, lastRes>>

\* writeBytes is entered.
WbEnter ==
    /\ pc = "prim" /\ prim.pc = "entry"
    /\ prim' = IF mode = "sw" THEN SW_writeBytes_Entry(handle, prim)
               ELSE writeBytes_Entry(handle, prim)
    /\ UNCHANGED <<Alone, disk, calls, lastRes>>

\* writeBytes calls lseek.
WbSeek ==
    /\ pc = "prim" /\ prim.pc = "seek"
    /\ prim' = writeBytes_Seek(prim)
    /\ UNCHANGED <<Alone, disk, calls, lastRes>>

\* writeBytes tests remaining and calls write, or returns.
WbLoop ==
    /\ pc = "prim" /\ prim.pc = "loop"
    /\ LET r == writeBytes_Loop(prim, disk)
       IN  prim' = r.prim /\ disk' = r.dev
    /\ UNCHANGED <<Alone, calls, lastRes>>

\* zeroSectors is called and returns.
ZeroRegion ==
    /\ pc = "prim" /\ prim.pc = "zero"
    /\ LET io == IoStart(disk, prim.at, prim.env)
           r == IF mode = "sw"
                THEN SW_zeroSectors(handle, prim.startSector, prim.sectorCount, io)
                ELSE zeroSectors(handle, prim.startSector, prim.sectorCount, io)
       IN  /\ disk' = r.io.dev
           /\ calls' = r.io.calls
           /\ lastRes' = r.res
    /\ prim' = [prim EXCEPT !.pc = "done"]
    /\ UNCHANGED Alone

NextIO == IoCall \/ WbEnter \/ WbSeek \/ WbLoop \/ ZeroRegion

SpecIO == InitIO /\ [][NextIO]_vars

\* A writeBytes call that is running goes on running: the process is
\* scheduled again and again, and the next step of the call is taken once it
\* can be.  Nothing makes the caller call.
SpecIOFair == SpecIO /\ WF_vars(WbEnter) /\ WF_vars(WbSeek) /\ WF_vars(WbLoop)


\* ------------------------------------------------- devices of every size
\* The operations whose sectors lie at fixed places (master boot record, boot
\* sector, FSInfo) and SectorWriter::make, on devices from the smallest
\* SectorWriter::make accepts up to devices of 2^32 sectors and more.

\* 18432; 24609; the sizes around the first with 65525 data clusters
\* (4202848 with fatSizeSectors, 4202850 with SectorWriter::make); 2^32 - 1;
\* 2^32 + 8191 and 2^32 + 8192 (the first partition of 2^32 sectors);
\* 2^32 + 1056929 and 2^32 + 1056930 (the first data region of 2^32 sectors
\* and more); 2^33.
GeometrySectorCounts ==
    {W64(18432), W64(24609), W64(4202847), W64(4202848), W64(4202849),
     W64(4202850), <<65535, 65535, 0, 0>>, <<8191, 0, 1, 0>>,
     <<8192, 0, 1, 0>>, <<8353, 16, 1, 0>>, <<8354, 16, 1, 0>>,
     <<0, 0, 2, 0>>}

InitGeometry ==
    /\ mode \in {"capi", "sw"}
    /\ handle \in Handles
    /\ totalSectors \in GeometrySectorCounts
    /\ labelText \in Labels
    /\ priorSeed \in PriorSeeds
    /\ disk = <<>>
    /\ done = {}
    /\ lastOp = "none"
    /\ lastRes = "none"
    /\ calls = <<>>
    /\ volumeId = W32(0)
    /\ sw = NoWriter
    /\ pc = "lib"
    /\ exitStatus = -1
    /\ closed = FALSE
    /\ prepared = <<>>
    /\ prim = NoCall

NextGeometry ==
    \/ CallWriteMBR
    \/ CallWriteVolumeBootRecord
    \/ CallWriteFSInfo
    \/ SwMake
    \/ SwWriteMBR
    \/ SwWriteFat32BootSector
    \/ SwWriteFSInfo

SpecGeometry == InitGeometry /\ [][NextGeometry]_vars


\* ------------------------------------------------ what the claims speak of

\* totalSectors is valid: at least the 18432 sectors SectorWriter::make asks for.
Valid == ~LessW(totalSectors, W64(18432))

\* The geometry the specification derives from totalSectors: the ceiling of
\* (partitionSectorCount - 32) / 8193, and 8224 plus two such FATs.
SpecFatSize ==
    LET a == ToInt(totalSectors) - 8192 - 32
    IN  (a \div 8193) + (IF a % 8193 = 0 THEN 0 ELSE 1)
SpecDataStart == 8224 + 2 * SpecFatSize

\* The geometry and the label the session's implementation works with.
FatSizeOf ==
    IF mode = "sw" THEN ToInt(sw.obj.fatSizeSectors_)
    ELSE ToInt(fatSizeSectors(totalSectors))
DataStartOf ==
    IF mode = "sw" THEN ToInt(sw.obj.dataStartSector_)
    ELSE ToInt(dataStartSector(totalSectors))
FreeCountOf ==
    IF mode = "sw" THEN sw.obj.freeClusterCount_
    ELSE freeClusterCount(totalSectors)
LabelOf ==
    IF mode = "sw" THEN sw.obj.volumeLabel_ ELSE prepareVolumeLabel(labelText)

Returns(op, res) == lastOp = op /\ lastRes = res

IsZero(img) == Len(img) = 512 /\ \A i \in 1..512 : img[i] = 0

\* img is a FAT sector holding 0xFFFFFFF8, 0xFFFFFFFF, 0x0FFFFFFF and 125
\* zero entries.
IsFatHeader(img) ==
    /\ Len(img) = 512
    /\ ReadLE32(img, 0) = <<65528, 65535>>
    /\ ReadLE32(img, 4) = <<65535, 65535>>
    /\ ReadLE32(img, 8) = <<65535, 4095>>
    /\ \A k \in 3..127 : ReadLE32(img, 4 * k) = <<0, 0>>

\* The device holds two initialised, identical FAT copies of size sectors each.
FatCopiesAt(size) ==
    /\ \A c \in 0..1 :
          /\ IsFatHeader(SectorOf(disk, 8224 + c * size))
          /\ \A k \in 1..(size - 1) : IsZero(SectorOf(disk, 8224 + c * size + k))
    /\ \A k \in 0..(size - 1) :
          SectorOf(disk, 8224 + k) = SectorOf(disk, 8224 + size + k)

\* C1: after writeFatTables returns Success for a valid totalSectors, whatever
\* the device held before, each of the two FAT copies (from sector 8224 and
\* from sector 8224 + fatSizeSectors) is a first sector with the entries
\* 0xFFFFFFF8, 0xFFFFFFFF, 0x0FFFFFFF and 125 zero entries followed by
\* fatSizeSectors - 1 all-zero sectors, and the two copies are identical.
C1_FatCopiesInitialised ==
    (Valid /\ Returns("fat", Success)) => FatCopiesAt(SpecFatSize)

\* C2: after writeVolumeBootRecord returns Success, sectors 8192 and 8198 hold
\* the same 512 bytes, a boot sector with the serial this write read from the
\* clock and the session's normalized label.
C2_BootSectorCopiesIdentical ==
    Returns("vbr", Success) =>
        LET primary == SectorOf(disk, 8192)
            backup == SectorOf(disk, 8198)
        IN  /\ primary = backup
            /\ Len(primary) = 512
            /\ SubSeq(primary, 1, 3) = <<235, 88, 144>>
            /\ ReadLE32(primary, 67) = volumeId
            /\ SubSeq(primary, 72, 82) = LabelOf
            /\ SubSeq(primary, 511, 512) = <<85, 170>>

\* C2's case: the boot sector was written, with a serial cut from a clock
\* value above 32 bits, over a device that held non-zero bytes.
C2_Witness ==
    Returns("vbr", Success) /\ volumeId = <<5, 0>> /\ priorSeed # 0

\* img is an FSInfo sector: 0x41615252 at 0, 0x61417272 at 484, the free
\* count at 488, 3 at 492, 0xAA550000 at 508, zero everywhere else.
IsFSInfo(img, freeCount) ==
    /\ Len(img) = 512
    /\ ReadLE32(img, 0) = <<21074, 16737>>
    /\ \A i \in 5..484 : img[i] = 0
    /\ ReadLE32(img, 484) = <<29298, 24897>>
    /\ ReadLE32(img, 488) = freeCount
    /\ ReadLE32(img, 492) = <<3, 0>>
    /\ \A i \in 497..508 : img[i] = 0
    /\ ReadLE32(img, 508) = <<0, 43605>>

\* C3: after writeFSInfo returns Success, in the C function and in the
\* SectorWriter method alike, sectors 8193 and 8199 both hold the FSInfo image
\* with the geometry's free-cluster count.
C3_FSInfoBothCopies ==
    (Valid /\ Returns("fsinfo", Success)) =>
        \A s \in {8193, 8199} : IsFSInfo(SectorOf(disk, s), FreeCountOf)

\* The 64 sectors from sector start on are a sector with one volume-label
\* entry (the label, attribute 0x08, the rest zero) and 63 zero sectors.
RootClusterAt(start) ==
    LET first == SectorOf(disk, start)
    IN  /\ Len(first) = 512
        /\ SubSeq(first, 1, 11) = LabelOf
        /\ first[12] = 8
        /\ \A i \in 13..512 : first[i] = 0
        /\ \A k \in 1..63 : IsZero(SectorOf(disk, start + k))

\* C4: after writeRootDirectory returns Success for a valid totalSectors,
\* whatever the device held before, the 64 sectors from dataStartSector on are
\* the volume-label sector followed by 63 all-zero sectors.
C4_RootClusterInitialised ==
    (Valid /\ Returns("root", Success)) => RootClusterAt(SpecDataStart)

\* C5: for a totalSectors below the minimum, the command-line tool and
\* SectorWriter::make neither derive geometry nor write a sector; the caller
\* fails with TooSmall.
C5_TooSmallRejected ==
    (mode \in {"tool", "sw"} /\ ~Valid) =>
        /\ DOMAIN disk = {}
        /\ calls = <<>>
        /\ sw.state # "made"
        /\ lastRes \in {"none", TooSmall}
        /\ exitStatus # 0

\* C6: the FAT size a boot sector records for a valid totalSectors gives each
\* FAT copy an entry for every cluster number in use:
\* 128 * fatSizeSectors >= floor((partitionSectorCount - 32 - 2 * fatSizeSectors) / 64) + 2.
C6_FatNeverUnderAllocates ==
    (Valid /\ Returns("vbr", Success)) =>
        LET img == SectorOf(disk, 8192)
            partition == ToInt(ReadLE32(img, 32))
            fatSize == ToInt(ReadLE32(img, 36))
        IN  128 * fatSize >= ((partition - 32 - 2 * fatSize) \div 64) + 2

\* Devices a and b hold the same bytes in every sector.
SameDevice(a, b) ==
    \A s \in DOMAIN a \cup DOMAIN b : SectorOf(a, s) = SectorOf(b, s)

\* The device after the five operations ran in the order MBR, boot sector,
\* FSInfo, FAT, root directory over an untouched device, every write
\* succeeding and the clock giving the serial the session's boot sector got.
InOrder ==
    LET start(dev) == IoStart(dev, 0, NoFault)
        now == Widen64(volumeId)
        c1 == sdFormatWriteMBR(handle, totalSectors, start(<<>>))
        c2 == sdFormatWriteVolumeBootRecord(handle, totalSectors, labelText, now,
                                            start(c1.io.dev))
        c3 == sdFormatWriteFSInfo(handle, totalSectors, start(c2.io.dev))
        c4 == sdFormatWriteFat32Tables(handle, totalSectors, start(c3.io.dev))
        c5 == sdFormatWriteRootDirectory(handle, totalSectors, labelText,
                                         start(c4.io.dev))
        s1 == SW_writeMBR(sw.obj, start(<<>>))
        s2 == SW_writeFat32BootSector(sw.obj, now, start(s1.io.dev))
        s3 == SW_writeFSInfo(sw.obj, start(s2.io.dev))
        s4 == SW_writeFat32Tables(sw.obj, start(s3.io.dev))
        s5 == SW_writeRootDirectory(sw.obj, start(s4.io.dev))
    IN  IF mode = "sw" THEN s5.io.dev ELSE c5.io.dev

AllSucceeded == done = Ops /\ lastRes = Success

\* C7: for a valid totalSectors, once each of the five operations has run once
\* and succeeded, in whichever of the 120 orders, the device holds what it
\* holds after the order MBR, boot sector, FSInfo, FAT, root directory with
\* the same serial.
C7_AnyOrderSameDevice ==
    (Valid /\ AllSucceeded) => SameDevice(disk, InOrder)

\* C7's case: a caller of the C functions ran the five in an order that ends
\* with the MBR, over non-zero prior contents.
C7_Witness ==
    /\ Valid /\ AllSucceeded /\ mode = "capi" /\ lastOp = "mbr"
    /\ priorSeed # 0
    /\ SameDevice(disk, InOrder)

\* The calls the last operation made that did not return Success.
Failing == {i \in 1..Len(calls) : calls[i].res # Success}
FirstFailing == CHOOSE i \in Failing : \A j \in Failing : i <= j

\* C8: an operation, C function or SectorWriter method, returns Success only
\* when every write it made succeeded, and otherwise returns the result of its
\* first failing write unchanged: InvalidDevice for an invalid handle, IOError
\* for a failed seek or write.
C8_FirstFailureReturned ==
    (Valid /\ lastOp # "none") =>
        IF Failing = {} THEN lastRes = Success
        ELSE /\ lastRes = calls[FirstFailing].res
             /\ lastRes = IF handle < 0 THEN InvalidDevice ELSE IOError

\* Call c covers sector s; the 512 bytes it stores there.
Covers(c, s) == c.off <= 512 * s /\ 512 * s < c.off + c.len
DataAt(c, s) ==
    IF c.data = <<>> THEN [i \in 1..512 |-> 0]
    ELSE SubSeq(c.data, 512 * s - c.off + 1, 512 * s - c.off + 512)
SectorsOf(c) == {s \in (c.off \div 512)..((c.off + c.len - 1) \div 512) : Covers(c, s)}

\* C9: within an operation no write is attempted after a write failed (no
\* backup or second copy after a failed primary write, no header or root
\* sector after a failed zeroing), and every sector a write stored before the
\* failure, and the failing write did not touch, holds what was stored.
C9_ShortCircuitNoRollback ==
    /\ \A i \in 1..(Len(calls) - 1) : calls[i].res = Success
    /\ lastRes \notin {"none", Success} =>
          /\ calls # <<>>
          /\ calls[Len(calls)].res # Success
          /\ \A i \in 1..(Len(calls) - 1) : \A s \in SectorsOf(calls[i]) :
                (\A j \in (i + 1)..Len(calls) : ~Covers(calls[j], s))
                    => SectorOf(disk, s) = DataAt(calls[i], s)

\* C9's case: writeFatTables failed while zeroing the second copy, after the
\* first copy was zeroed and got its first sector, on a device that held
\* non-zero bytes.
C9_Witness ==
    /\ lastOp = "fat" /\ lastRes = IOError /\ Len(calls) = 3
    /\ priorSeed # 0
    /\ IsFatHeader(SectorOf(disk, 8224))
    /\ ~IsFatHeader(SectorOf(disk, 8224 + FatSizeOf))

\* C10: for a valid totalSectors the free function fatSizeSectors and
\* SectorWriter::make both yield ceil((totalSectors - 8192 - 32) / 8193), and
\* a data start of 8224 plus twice that.
C10_GeometryAsSpecified ==
    Valid =>
        /\ ToInt(fatSizeSectors(totalSectors)) = SpecFatSize
        /\ ToInt(dataStartSector(totalSectors)) = SpecDataStart
        /\ sw.state = "made" =>
              /\ ToInt(sw.obj.fatSizeSectors_) = SpecFatSize
              /\ ToInt(sw.obj.dataStartSector_) = SpecDataStart

\* The operations in ops have all run in this session and succeeded.
Succeeded(ops) == ops \subseteq done /\ lastRes = Success

Touched == UNION {SectorsOf(calls[i]) : i \in 1..Len(calls)}

\* The sectors each operation is to write, for a FAT of size sectors and a
\* data region starting at sector start.
RangeOf(op, size, start) ==
    CASE op = "mbr" -> {0}
      [] op = "vbr" -> {8192, 8198}
      [] op = "fsinfo" -> {8193, 8199}
      [] op = "fat" -> 8224..(8224 + 2 * size - 1)
      [] op = "root" -> start..(start + 63)

\* C12: for a valid totalSectors the data region starts past the last FAT
\* sector, every operation stays within its range ({0}; {8192, 8198};
\* {8193, 8199}; the two FATs; the root cluster), and the five ranges are
\* pairwise disjoint.
C12_RegionsDisjoint ==
    (Valid /\ lastOp # "none") =>
        /\ DataStartOf > 8224 + 2 * FatSizeOf - 1
        /\ Touched \subseteq RangeOf(lastOp, FatSizeOf, DataStartOf)
        /\ \A a, b \in Ops :
              a # b => RangeOf(a, FatSizeOf, DataStartOf)
                         \cap RangeOf(b, FatSizeOf, DataStartOf) = {}

\* C12's case: the root directory was written after a two-chunk FAT, and its
\* cluster starts right after the last FAT sector.
C12_Witness ==
    /\ Valid /\ Succeeded({"fat", "root"}) /\ lastOp = "root"
    /\ FatSizeOf > 64
    /\ Touched = DataStartOf..(DataStartOf + 63)
    /\ (8224 + 2 * FatSizeOf - 1) \in DOMAIN disk

\* The byte offsets at which the last operation stored a sector that is not
\* all zero.
ImageOffsets == {calls[i].off : i \in {j \in 1..Len(calls) : calls[j].data # <<>>}}

AsciiUpper(c) == IF \E k \in 0..25 : c = 97 + k THEN 65 + (c - 97) ELSE c

\* C15: for every label text s the prepared label has 11 characters: the
\* ASCII upper case of s's character at each position below
\* min(length(s), 11), a space at every later one.
C15_LabelPrepared ==
    Len(prepared) >= 1 =>
        /\ Len(prepared[1]) = 11
        /\ \A i \in 1..11 :
              prepared[1][i] = IF i <= Len(labelText)
                               THEN AsciiUpper(labelText[i]) ELSE 32

\* C15's case: SectorWriter's function prepared a text of 12 characters whose
\* eleventh is a lower-case letter.
C15_Witness ==
    /\ Len(prepared) >= 1 /\ mode = "sw"
    /\ Len(labelText) = 12 /\ labelText[11] = 122
    /\ prepared[1][11] = 90

\* C16: preparing a prepared label gives the same label.
C16_PreparationIdempotent ==
    Len(prepared) = 2 => prepared[2] = prepared[1]

\* C16's case: the C function prepared twice a text longer than 11
\* characters with lower-case letters in it.
C16_Witness ==
    /\ Len(prepared) = 2 /\ mode = "capi"
    /\ Len(labelText) > 11 /\ labelText[2] = 108
    /\ prepared[2][2] = 76

\* Sector s lies in a gap of the layout, for a data region starting at start.
InGap(s, start) ==
    \/ s \in 1..8191
    \/ s \in 8194..8197
    \/ s \in 8200..8223
    \/ s >= start + 64

OtherSession(now) ==
    LET start(dev) == IoStart(dev, 0, NoFault)
        c1 == sdFormatWriteMBR(handle, totalSectors, start(<<>>))
        c2 == sdFormatWriteVolumeBootRecord(handle, totalSectors, labelText, now,
                                            start(c1.io.dev))
        c3 == sdFormatWriteFSInfo(handle, totalSectors, start(c2.io.dev))
        c4 == sdFormatWriteFat32Tables(handle, totalSectors, start(c3.io.dev))
        c5 == sdFormatWriteRootDirectory(handle, totalSectors, labelText,
                                         start(c4.io.dev))
        s1 == SW_writeMBR(sw.obj, start(<<>>))
        s2 == SW_writeFat32BootSector(sw.obj, now, start(s1.io.dev))
        s3 == SW_writeFSInfo(sw.obj, start(s2.io.dev))
        s4 == SW_writeFat32Tables(sw.obj, start(s3.io.dev))
        s5 == SW_writeRootDirectory(sw.obj, start(s4.io.dev))
    IN  IF mode = "sw" THEN s5.io.dev ELSE c5.io.dev

\* C18 as stated: two sessions given the same totalSectors, label and prior
\* contents end with the same device contents, whenever each reads the clock.
C18_SessionsIdentical ==
    (Valid /\ AllSucceeded) =>
        \A now \in Times : SameDevice(disk, OtherSession(now))

\* Devices a and b hold the same bytes but for the four bytes of the volume
\* serial, at offset 67 of sectors 8192 and 8198.
SameButSerial(a, b) ==
    \A s \in DOMAIN a \cup DOMAIN b :
        IF s \in {8192, 8198}
        THEN \A i \in (1..512) \ (68..71) : SectorOf(a, s)[i] = SectorOf(b, s)[i]
        ELSE SectorOf(a, s) = SectorOf(b, s)

\* C18, amended: two sessions given the same totalSectors, label and prior
\* contents end with the same device contents when time() gave both the same
\* 32-bit serial, and otherwise with contents that differ in the serial alone.
C18_SessionsIdenticalButSerial ==
    (Valid /\ AllSucceeded) =>
        \A now \in Times :
            /\ SameButSerial(disk, OtherSession(now))
            /\ Narrow32(now) = volumeId => SameDevice(disk, OtherSession(now))

\* C18's case: a session completed, and another one that reads another clock
\* value ends with a device that differs from it.
C18_Witness ==
    /\ Valid /\ AllSucceeded /\ priorSeed # 0
    /\ \E now \in Times :
          /\ Narrow32(now) # volumeId
          /\ ~SameDevice(disk, OtherSession(now))
          /\ SameButSerial(disk, OtherSession(now))


\* C19: a function of the C API returns 0 on success and, when an I/O
\* operation failed, the errno value of that operation.
C19_ErrnoReturned ==
    (Valid /\ mode \in {"capi", "tool"} /\ lastOp # "none") =>
        /\ lastRes = Success => ResultValue(lastRes) = 0
        /\ (lastRes # Success /\ calls[Len(calls)].errno # "none") =>
              ResultValue(lastRes) = ErrnoValue(calls[Len(calls)].errno)

\* The order in which main invokes the operations.
ToolOrder == <<"mbr", "vbr", "fsinfo", "fat", "root">>
ToolPrefix(n) == {ToolOrder[i] : i \in 1..n}

\* C20: the command-line tool invokes the operations in the order MBR, boot
\* sector, FSInfo, FAT, root directory; after the first result that is not
\* Success it invokes nothing more, has closed the descriptor and exits with
\* status 1; it exits with status 0 only when all five returned Success.
C20_ToolSequence ==
    /\ [](mode = "tool" =>
            /\ \E n \in 0..5 :
                  /\ done = ToolPrefix(n)
                  /\ lastOp = IF n = 0 THEN "none" ELSE ToolOrder[n]
            /\ lastRes \notin {"none", Success} =>
                  pc = "exit" /\ exitStatus = 1 /\ closed
            /\ exitStatus = 0 => done = Ops /\ lastRes = Success /\ closed)
    /\ [][mode = "tool" =>
            /\ lastRes \notin {"none", Success} => done' = done
            /\ done' # done =>
                  done' = done \cup {ToolOrder[Cardinality(done) + 1]}]_vars

\* C20's case: the FAT tables failed after three operations succeeded, and
\* the tool stopped there with status 1.
C20_Witness ==
    /\ mode = "tool" /\ lastOp = "fat" /\ lastRes = IOError
    /\ done = ToolPrefix(4) /\ pc = "exit" /\ exitStatus = 1 /\ closed

\* ------------------------------------------------------------ C21 .. C27

\* Byte b (0-based) of device dev, and what the device held there before.
DeviceByte(dev, b) == SectorOf(dev, b \div kSectorSize)[(b % kSectorSize) + 1]
PriorByte(b) == PriorSector(b \div kSectorSize)[(b % kSectorSize) + 1]

\* The bytes the calls taken alone can reach.
NearBytes == 0..(3 * kSectorSize - 1)

WriteReturned(res) ==
    pc = "prim" /\ prim.op = "writeBytes" /\ prim.pc = "done" /\ prim.result = res

\* C21: whatever short writes and EINTR interruptions a writeBytes call met,
\* once it has returned Success the device holds the bytes of data, in order,
\* from byteOffset on, every other byte of the device is as it was before the
\* call, and the byte counts the write calls returned add up to the length of
\* data.  Both writeBytes functions.
C21_WriteAtExact ==
    WriteReturned(Success) =>
        /\ \A b \in NearBytes :
              DeviceByte(disk, b) =
                  IF b >= prim.offset /\ b < prim.offset + Len(prim.data)
                  THEN prim.data[b - prim.offset + 1]
                  ELSE PriorByte(b)
        /\ \A s \in DOMAIN disk : s * kSectorSize \in NearBytes
        /\ prim.accepted = Len(prim.data)

\* Three bytes across a sector boundary are written over non-zero contents by
\* a write that accepts one byte, an interrupted write and a final write.
C21_Witness ==
    /\ WriteReturned(Success)
    /\ prim.given.script = <<Accepts(1), Eintr>>
    /\ Len(prim.data) = 3 /\ prim.offset = 510 /\ priorSeed # 0
    /\ prim.last.pos = 511 /\ prim.last.count = 2

\* What C22 says of one step of a writeBytes call.
RetryStep ==
    (pc = "prim" /\ prim.op = "writeBytes") =>
        /\ (prim.pc = "seek" /\ ~prim.env.seekOk) =>
              /\ prim'.pc = "done" /\ prim'.result = IOError
              /\ ~prim'.wrote /\ disk' = disk
        /\ (prim.pc = "loop" /\ prim.remaining > 0) =>
              LET written == prim'.last.res
              IN  /\ prim'.last.pos = prim.offset + prim.ptr
                  /\ prim'.last.count = prim.remaining
                  /\ written = Eintr =>
                        /\ prim'.pc = "loop"
                        /\ prim'.ptr = prim.ptr
                        /\ prim'.remaining = prim.remaining
                        /\ disk' = disk
                  /\ (written.ret = -1 /\ written # Eintr) =>
                        /\ prim'.pc = "done" /\ prim'.result = IOError
                        /\ disk' = disk
                  /\ written.ret >= 0 => prim'.pc = "loop"
        /\ prim.pc = "done" => (prim' = prim /\ disk' = disk)

\* C22: only interruption is retried.  A write call that fails with EINTR
\* leaves ptr, remaining and the device as they were and the loop goes on, so
\* the next write call is for the same bytes; a write call that fails with
\* any other errno makes writeBytes return IOError with no further system
\* call, and so does a failing lseek, before any write; once writeBytes has
\* returned nothing more is written.  Both writeBytes functions.
C22_OnlyInterruptionRetried == [][RetryStep]_vars

\* An interrupted write was tried again, and the second attempt failed with
\* EIO: the call returned IOError.
C22_Witness ==
    /\ WriteReturned(IOError)
    /\ prim.given.script = <<Eintr, Eio>>
    /\ prim.last.res = Eio /\ prim.last.pos = prim.offset
    /\ prim.accepted = 0

\* C23: writeBytes called with empty data returns Success without calling
\* lseek or write, in the free function writeBytes and in
\* SectorWriter::writeBytes.  Stated here for calls on a valid descriptor,
\* where no other rule could apply.
C23_EmptyInputSucceeds ==
    (pc = "prim" /\ prim.op = "writeBytes" /\ prim.pc = "done"
        /\ prim.data = <<>> /\ handle >= 0) =>
        /\ prim.result = Success
        /\ ~prim.sought /\ ~prim.wrote
        /\ disk = <<>>

ZeroReturned == pc = "prim" /\ prim.op = "zeroSectors" /\ prim.pc = "done"

\* ceil(n / kSectorsPerCluster)
ChunksOf(n) == (n + kSectorsPerCluster - 1) \div kSectorsPerCluster

\* C25: the k-th writeBytes call of zeroSectors (k from 0) starts at sector
\* startSector + 64*k and carries min(64, sectors left) sectors of zero
\* bytes; no call follows a call that failed, and the result of zeroSectors
\* is that of its last call; on Success there were ceil(sectorCount / 64)
\* calls and the sectors written are exactly startSector .. startSector +
\* sectorCount - 1, all zero; with sectorCount = 0 there is no call and the
\* result is Success.  Both zeroSectors functions.
C25_ZeroRegionChunks ==
    ZeroReturned =>
        /\ \A k \in 1..Len(calls) :
              /\ calls[k].off = (prim.startSector + kSectorsPerCluster * (k - 1))
                                    * kSectorSize
              /\ calls[k].len = kSectorSize
                                    * Min(kSectorsPerCluster,
                                          prim.sectorCount
                                              - kSectorsPerCluster * (k - 1))
              /\ calls[k].len > 0
              /\ calls[k].data = <<>>
              /\ k < Len(calls) => calls[k].res = Success
        /\ calls # <<>> => lastRes = calls[Len(calls)].res
        /\ lastRes = Success =>
              /\ Len(calls) = ChunksOf(prim.sectorCount)
              /\ DOMAIN disk = prim.startSector
                                   .. (prim.startSector + prim.sectorCount - 1)
              /\ \A s \in DOMAIN disk : SectorOf(disk, s) = ZeroSector
        /\ prim.sectorCount = 0 => (calls = <<>> /\ lastRes = Success)

\* 130 sectors from sector 70 on were zeroed over non-zero contents in three
\* chunks, the last of two sectors.
C25_Witness ==
    /\ ZeroReturned /\ lastRes = Success
    /\ prim.startSector = 70 /\ prim.sectorCount = 130 /\ priorSeed # 0
    /\ Len(calls) = 3 /\ calls[3].len = 2 * kSectorSize
    /\ SectorOf(disk, 199) = ZeroSector /\ SectorOf(disk, 200) = PriorSector(200)

\* The second chunk of three failed, and the third was not attempted.
C25_WitnessFailure ==
    /\ ZeroReturned /\ lastRes = IOError
    /\ prim.sectorCount = 130 /\ Len(calls) = 2

\* ((partitionSectorCount - 32 - 2 * fatSize) / 64 - 1) evaluated in 64 bits
\* for the session's totalSectors, narrowed to 32 bits at the end.
FreeCountIn64Bits(fatSize) ==
    Narrow32(SubW(DivW(SubW(SubW(partitionSectorCount(totalSectors),
                                 W64(kReservedSectors)),
                            MulW(W64(fatSize), kFatCount)),
                       kSectorsPerCluster),
                  W64(1)))

\* C26: for every totalSectors of 18432 and more, partitions of 2^32 sectors
\* and more included, the free-cluster count stored in the FSInfo sector is
\* the low 32 bits of ((partitionSectorCount - 32 - 2 * fatSizeSectors) / 64
\* - 1) evaluated in 64-bit arithmetic, fatSizeSectors being the FAT size the
\* implementation derives.
C26_FreeCountIn64Bits ==
    (Valid /\ Returns("fsinfo", Success)) =>
        ReadLE32(SectorOf(disk, 8193), 488) = FreeCountIn64Bits(FatSizeOf)

\* C27: every writeBytes call returns in the end, whatever its write calls
\* return (a return of 0 bytes included), only finitely many of them being
\* interrupted with EINTR.
C27_EveryCallReturns ==
    (pc = "prim" /\ prim.op = "writeBytes") ~> (prim.pc = "done")

\* ------------------------------------------------------------ C28 .. C30

\* img starts like a boot sector (jump EB 58 90) and ends with 55 AA.
IsBootSector(img) ==
    /\ Len(img) = 512
    /\ SubSeq(img, 1, 3) = <<235, 88, 144>>
    /\ SubSeq(img, 511, 512) = <<85, 170>>

\* C28: after all five operations succeeded, the structures lie where the
\* master boot record and the boot sector on the device say.  With lbaStart
\* and sectorCount read from slot 0 of sector 0 and the other fields read
\* from the boot sector found at lbaStart: that sector was written and is a
\* boot sector whose hiddenSectors is lbaStart and whose totalSectors32 is
\* sectorCount; the sector at lbaStart + fsInfoSector was written and carries
\* the FSInfo signatures; the sector at lbaStart + backupBootSector was
\* written and equals the boot sector; the sectors at lbaStart +
\* reservedSectorCount and fatSize32 sectors later were written and are FAT
\* first sectors; the 64 sectors from lbaStart + reservedSectorCount +
\* fatCount * fatSize32 + (rootCluster - 2) * sectorsPerCluster on were
\* written and are the volume-label sector and 63 zero sectors.
C28_PlacesAsDeclared ==
    AllSucceeded =>
        LET mbr == SectorOf(disk, 0)
            lbaStart == ToInt(ReadLE32(mbr, 454))
            sectorCount == ReadLE32(mbr, 458)
            vbr == SectorOf(disk, lbaStart)
            reserved == ReadLE16(vbr, 14)
            fatCount == vbr[17]
            perCluster == vbr[14]
            fatSize32 == ToInt(ReadLE32(vbr, 36))
            rootCluster == ToInt(ReadLE32(vbr, 44))
            fsInfoSector == ReadLE16(vbr, 48)
            backupBootSector == ReadLE16(vbr, 50)
            fat == lbaStart + reserved
            root == fat + fatCount * fatSize32 + (rootCluster - 2) * perCluster
        IN  /\ {0, lbaStart, lbaStart + fsInfoSector, lbaStart + backupBootSector,
                fat, fat + fatSize32} \cup (root .. (root + 63))
                   \subseteq DOMAIN disk
            /\ IsBootSector(vbr)
            /\ ToInt(ReadLE32(vbr, 28)) = lbaStart
            /\ ReadLE32(vbr, 32) = sectorCount
            /\ ReadLE32(SectorOf(disk, lbaStart + fsInfoSector), 0)
                   = <<21074, 16737>>
            /\ ReadLE32(SectorOf(disk, lbaStart + fsInfoSector), 484)
                   = <<29298, 24897>>
            /\ fsInfoSector # backupBootSector
            /\ SectorOf(disk, lbaStart + backupBootSector) = vbr
            /\ IsFatHeader(SectorOf(disk, fat))
            /\ IsFatHeader(SectorOf(disk, fat + fatSize32))
            /\ fatCount = 2 /\ fatSize32 > 0
            /\ RootClusterAt(root)

\* The five C functions succeeded on a device of 532577 sectors that held
\* non-zero bytes: the FAT size declared is above one sector.
C28_Witness ==
    /\ AllSucceeded /\ mode = "capi" /\ priorSeed # 0
    /\ totalSectors = W64(532577)
    /\ ToInt(ReadLE32(SectorOf(disk, 8192), 36)) = 65

\* SectorWriter::make has run where the session uses SectorWriter.
Derived == mode = "sw" => sw.state = "made"

\* C29: for every totalSectors of 18432 and more the layout lies within the
\* device: dataStartSector + 64 <= totalSectors; the free-cluster count the
\* written FSInfo sector holds has not wrapped below zero (it is not
\* 0xFFFFFFFF); and the partition the written master boot record declares
\* ends at totalSectors exactly: 8192 + sectorCount = totalSectors.
C29_LayoutWithinDevice ==
    (Valid /\ Derived) =>
        /\ ~LessW(totalSectors, W64(DataStartOf + kSectorsPerCluster))
        /\ Returns("fsinfo", Success) =>
              ReadLE32(SectorOf(disk, 8193), 488) # Hex32(65535, 65535)
        /\ Returns("mbr", Success) =>
              AddW(W64(kPartitionAlignmentSectors),
                   Widen64(ReadLE32(SectorOf(disk, 0), 458))) = totalSectors

\* C30: for every totalSectors of 18432 and more, the number of data clusters
\* of the volume whose boot sector was written, floor((partitionSectorCount -
\* 32 - 2 * fatSizeSectors) / 64) with the FAT size the implementation
\* derives, is at least 65525, the least number of clusters for which a
\* reader that counts clusters takes a volume for FAT32.
C30_ClusterCountIsFat32 ==
    (Valid /\ Returns("vbr", Success)) =>
        LET dataSectors == SubW(SubW(partitionSectorCount(totalSectors),
                                     W64(kReservedSectors)),
                                MulW(W64(FatSizeOf), kFatCount))
        IN  ~LessW(DivW(dataSectors, kSectorsPerCluster), W64(65525))

=============================================================================
